---- MODULE Spec2Model ----
(***************************************************************************)
(* Cache-aside repository GormCacheRepository[T, ID] of cache/gorm_cache.go *)
(* over a relational store (gorm) and a time-expiring cache table           *)
(* (cache2go.CacheTable).                                                   *)
(*                                                                          *)
(* Entities are modelled by value: an entity is its primary key and a       *)
(* version of its other fields.  A *T the caller passes to Save or gets     *)
(* from GetByID stands for the value it points to at the time of the call.  *)
(* The ID type is uint (examples/user.go), keys are its decimal rendering;  *)
(* SpecString is the repository instantiated with ID = string.              *)
(***************************************************************************)
EXTENDS Integers, Sequences, FiniteSets, TLC

\* ------------------------------------------------------------------ bounds
MaxTime == 4    \* the clock of SpecTTL runs 0..MaxTime
TTL == 2        \* the positive CacheConfig.Expiration that is tried

SavedIDs == {1, 2}              \* the primary keys of the entities that are saved
IDs == SavedIDs \cup {3}        \* the ids calls are made with: 3 is never saved
Vals == {"v1", "v2"}            \* versions of an entity's non-key fields
TTLIDs == {1}                   \* the ids SpecTTL calls with

\* The values of the ID type when it is string: id i of the model stands for
\* the string StringIDs[i].
StringIDs == <<"u1", "u2", "all">>

\* ------------------------------------------------------------ entities, errors
Entity(i, v) == [id |-> i, v |-> v]
Entities == {Entity(i, v) : i \in SavedIDs, v \in Vals}
NilEntity == [id |-> 0, v |-> "nil"]

Nil == "nil"
ErrRecordNotFound == "gorm.ErrRecordNotFound"
StoreError == "store error"
Panic == "panic: interface conversion"

\* ------------------------------------------------------------------- state
VARIABLES
    db,      \* the store's table: id -> version, or NoRow
    cache,   \* the cache table: key -> item
    now,     \* the clock the cache table reads
    config,  \* CacheConfig
    last,    \* the last call: its arguments, result, error and store queries
    other,   \* the cache table of another TableName
    inflight \* the calls of concurrent callers that have not returned yet

vars == <<db, cache, now, config, last, other, inflight>>

NoRow == "norow"

\* ------------------------------------------------------------- key builder
Digit == <<"0", "1", "2", "3", "4", "5", "6", "7", "8", "9">>

RECURSIVE FormatUint(_)
\* fmt.Sprintf("%v", id) of an unsigned integer: its decimal digits.
FormatUint(n) ==
    IF n < 10 THEN Digit[n + 1]
    ELSE FormatUint(n \div 10) \o Digit[(n % 10) + 1]

\* fmt.Sprintf("%v", id): the decimal digits of a uint, the string itself for
\* a string.
Sprintf(idType, id) == IF idType = "string" THEN StringIDs[id] ELSE FormatUint(id)

buildCacheKey(id) == Sprintf(config.ID, id)

\* Returns the empty string whatever the entity is.
buildCacheKeyFromEntity(entity) == ""

AllKey == "all"

Keys == {Sprintf(t, i) : t \in {"uint", "string"}, i \in IDs} \cup {AllKey, ""}

\* ------------------------------------------------------------- cache table
\* What an item holds (the dynamic type of CacheItem.Data()).
NotFound == [tag |-> "NotFound"]
Ptr(e) == [tag |-> "entity", e |-> e]
List(es) == [tag |-> "list", es |-> es]

NoItem == [data |-> [tag |-> "none"], deadline |-> 0]

\* The deadline of an item added at time t: t + lifeSpan, and 0 (none) for
\* the zero lifeSpan, which never expires.
Deadline(lifeSpan, t) == IF lifeSpan = 0 THEN 0 ELSE t + lifeSpan

Live(item, t) == item # NoItem /\ (item.deadline = 0 \/ t < item.deadline)

\* CacheTable.Value: the item under key, NoItem for ErrKeyNotFound.
CacheValue(c, key, t) == IF Live(c[key], t) THEN c[key] ELSE NoItem

\* CacheTable.Add
CacheAdd(c, key, lifeSpan, data, t) ==
    [c EXCEPT ![key] = [data |-> data, deadline |-> Deadline(lifeSpan, t)]]

\* CacheTable.Delete (its ErrKeyNotFound is ignored by every caller)
CacheDelete(c, key) == [c EXCEPT ![key] = NoItem]

\* CacheTable.Flush
CacheFlush(c) == [k \in DOMAIN c |-> NoItem]

\* ------------------------------------------------------------------- store
\* Each store call either answers or fails with an error of the store.
Rows(d) == {Entity(i, d[i]) : i \in {j \in DOMAIN d : d[j] # NoRow}}

\* db.Where("id = ?", id).First(entity)
dbFirst(d, id) ==
    {[err |-> StoreError, e |-> NilEntity]} \cup
    (IF d[id] = NoRow THEN {[err |-> ErrRecordNotFound, e |-> NilEntity]}
     ELSE {[err |-> Nil, e |-> Entity(id, d[id])]})

\* db.Find(&entities)
dbFind(d) == {[err |-> StoreError, es |-> {}], [err |-> Nil, es |-> Rows(d)]}

\* db.Where("id IN ?", ids).Find(&entities)
dbFindIn(d, ids) ==
    {[err |-> StoreError, es |-> {}],
     [err |-> Nil, es |-> {e \in Rows(d) : e.id \in ids}]}

\* db.Save(entity): upsert by primary key
dbSave(d, entity) ==
    {[err |-> StoreError, d |-> d],
     [err |-> Nil, d |-> [d EXCEPT ![entity.id] = entity.v]]}

\* db.Where("id = ?", id).Delete(new(T))
dbDelete(d, id) ==
    {[err |-> StoreError, d |-> d], [err |-> Nil, d |-> [d EXCEPT ![id] = NoRow]]}

\* The store queries a call made, as the store adapter sees them.
QFirst(id) == [q |-> "First", ids |-> {id}]
QFind == [q |-> "Find", ids |-> {}]
QFindIn(ids) == [q |-> "FindIn", ids |-> ids]
QSave(entity) == [q |-> "Save", ids |-> {entity.id}]
QDelete(id) == [q |-> "Delete", ids |-> {id}]

\* ------------------------------------------------------------ the last call
Flip(b) == ~b

Call(op, id, ent, ids, ret, err, queries) ==
    [op |-> op, id |-> id, ent |-> ent, ids |-> ids, ret |-> ret, err |-> err,
     db |-> queries, at |-> now, flip |-> Flip(last.flip)]

\* ------------------------------------------------------------------ GetByID
\* Mutant: the entity the store returned is not added.
GetByIDStore_NoAdd(c, cacheKey, res, conf, t) ==
    IF res.err # Nil
    THEN IF conf.UseNotFoundCache /\ res.err = ErrRecordNotFound
         THEN CacheAdd(c, cacheKey, conf.Expiration, NotFound, t)
         ELSE c
    ELSE c

\* Mutant: the entity is added under the key Save uses.
GetByIDStore_EntityKey(c, cacheKey, res, conf, t) ==
    IF res.err # Nil
    THEN IF conf.UseNotFoundCache /\ res.err = ErrRecordNotFound
         THEN CacheAdd(c, cacheKey, conf.Expiration, NotFound, t)
         ELSE c
    ELSE CacheAdd(c, buildCacheKeyFromEntity(res.e), conf.Expiration, Ptr(res.e), t)

\* Mutant: UseNotFoundCache is not consulted.
GetByIDStore_AlwaysNotFound(c, cacheKey, res, conf, t) ==
    IF res.err # Nil
    THEN IF res.err = ErrRecordNotFound
         THEN CacheAdd(c, cacheKey, conf.Expiration, NotFound, t)
         ELSE c
    ELSE CacheAdd(c, cacheKey, conf.Expiration, Ptr(res.e), t)

\* Mutant: every error of the store is taken for not-found.
GetByIDStore_AnyErrorNotFound(c, cacheKey, res, conf, t) ==
    IF res.err # Nil
    THEN IF conf.UseNotFoundCache
         THEN CacheAdd(c, cacheKey, conf.Expiration, NotFound, t)
         ELSE c
    ELSE CacheAdd(c, cacheKey, conf.Expiration, Ptr(res.e), t)

\* Mutant: the item is added with the lifeSpan 0, whatever Expiration is.
GetByIDStore_NeverExpires(c, cacheKey, res, conf, t) ==
    IF res.err # Nil
    THEN IF conf.UseNotFoundCache /\ res.err = ErrRecordNotFound
         THEN CacheAdd(c, cacheKey, 0, NotFound, t)
         ELSE c
    ELSE CacheAdd(c, cacheKey, 0, Ptr(res.e), t)

\* The cache after the store answered a miss with res.
GetByIDStore(c, cacheKey, res, conf, t) ==
    IF res.err # Nil
    THEN IF conf.UseNotFoundCache /\ res.err = ErrRecordNotFound
         THEN CacheAdd(c, cacheKey, conf.Expiration, NotFound, t)
         ELSE c
    ELSE CacheAdd(c, cacheKey, conf.Expiration, Ptr(res.e), t)

\* Mutant: a hit adds the item again, which restarts its lifeSpan.
GetByIDHit_Refresh(c, cacheKey, cachedData, conf, t) ==
    CacheAdd(c, cacheKey, conf.Expiration, cachedData.data, t)

\* The cache after a hit: a hit writes nothing.
GetByIDHit(c, cacheKey, cachedData, conf, t) == c

GetByID(id) ==
    LET cacheKey == buildCacheKey(id)
        cachedData == CacheValue(cache, cacheKey, now)
    IN  /\ IF cachedData # NoItem
           THEN /\ cache' = GetByIDHit(cache, cacheKey, cachedData, config, now)
                /\ last' =
                     IF cachedData.data = NotFound
                     THEN Call("GetByID", id, NilEntity, {}, NilEntity,
                               ErrRecordNotFound, <<>>)
                     ELSE IF cachedData.data.tag = "entity"
                     THEN Call("GetByID", id, NilEntity, {}, cachedData.data.e,
                               Nil, <<>>)
                     ELSE Call("GetByID", id, NilEntity, {}, NilEntity, Panic, <<>>)
           ELSE \E res \in dbFirst(db, id) :
                /\ cache' = GetByIDStore(cache, cacheKey, res, config, now)
                /\ last' = Call("GetByID", id, NilEntity, {}, res.e, res.err,
                                <<QFirst(id)>>)
        /\ UNCHANGED <<db, now, config, other, inflight>>

\* ------------------------------------------------------------------- GetAll
GetAll ==
    LET cachedData == CacheValue(cache, AllKey, now)
    IN  /\ IF cachedData # NoItem
           THEN /\ cache' = cache
                /\ last' =
                     IF cachedData.data.tag = "list"
                     THEN Call("GetAll", 0, NilEntity, {}, cachedData.data.es, Nil, <<>>)
                     ELSE Call("GetAll", 0, NilEntity, {}, {}, Panic, <<>>)
           ELSE \E res \in dbFind(db) :
                /\ cache' = IF res.err # Nil THEN cache
                            ELSE CacheAdd(cache, AllKey, config.Expiration,
                                          List(res.es), now)
                /\ last' = Call("GetAll", 0, NilEntity, {}, res.es, res.err, <<QFind>>)
        /\ UNCHANGED <<db, now, config, other, inflight>>

\* --------------------------------------------------------------------- Save
\* Mutant: the collection is left in the cache.
SaveCache_KeepAll(c, entity, conf, t) ==
    CacheAdd(c, buildCacheKeyFromEntity(entity), conf.Expiration, Ptr(entity), t)

\* The cache after the store accepted the write.
SaveCache(c, entity, conf, t) ==
    CacheDelete(CacheAdd(c, buildCacheKeyFromEntity(entity), conf.Expiration,
                         Ptr(entity), t),
                AllKey)

\* Mutant: the cache is written whatever the store answered.
SaveResult_Optimistic(c, entity, res, conf, t) == SaveCache(c, entity, conf, t)

\* The cache after the store call returned res.
SaveResult(c, entity, res, conf, t) ==
    IF res.err # Nil THEN c ELSE SaveCache(c, entity, conf, t)

Save(entity) ==
    \E res \in dbSave(db, entity) :
        /\ db' = res.d
        /\ cache' = SaveResult(cache, entity, res, config, now)
        /\ last' = Call("Save", entity.id, entity, {}, NilEntity, res.err,
                        <<QSave(entity)>>)
        /\ UNCHANGED <<now, config, other, inflight>>

\* ------------------------------------------------------------------- Delete
\* Mutant: only the collection is deleted.
DeleteCache_KeepEntity(c, id) == CacheDelete(c, AllKey)

\* The cache after the store accepted the delete.
DeleteCache(c, id) == CacheDelete(CacheDelete(c, buildCacheKey(id)), AllKey)

\* The cache after the store call returned res.
DeleteResult(c, id, res) == IF res.err # Nil THEN c ELSE DeleteCache(c, id)

Delete(id) ==
    \E res \in dbDelete(db, id) :
        /\ db' = res.d
        /\ cache' = DeleteResult(cache, id, res)
        /\ last' = Call("Delete", id, NilEntity, {}, NilEntity, res.err,
                        <<QDelete(id)>>)
        /\ UNCHANGED <<now, config, other, inflight>>

\* ------------------------------------------------------ ClearCache, ClearAllCache
\* Mutant: the collection is deleted too, as Delete does.
ClearCache_AsDelete(id) ==
    /\ cache' = DeleteCache(cache, id)
    /\ last' = Call("ClearCache", id, NilEntity, {}, NilEntity, Nil, <<>>)
    /\ UNCHANGED <<db, now, config, other, inflight>>

ClearCache(id) ==
    /\ cache' = CacheDelete(cache, buildCacheKey(id))
    /\ last' = Call("ClearCache", id, NilEntity, {}, NilEntity, Nil, <<>>)
    /\ UNCHANGED <<db, now, config, other, inflight>>

\* Mutant: only the collection is removed.
ClearAllCache_OnlyCollection ==
    /\ cache' = CacheDelete(cache, AllKey)
    /\ last' = Call("ClearAllCache", 0, NilEntity, {}, NilEntity, Nil, <<>>)
    /\ UNCHANGED <<db, now, config, other, inflight>>

ClearAllCache ==
    /\ cache' = CacheFlush(cache)
    /\ last' = Call("ClearAllCache", 0, NilEntity, {}, NilEntity, Nil, <<>>)
    /\ UNCHANGED <<db, now, config, other, inflight>>

\* ----------------------------------------------------------------- BatchGet
\* The first loop: the ids whose key holds an entity, with that entity.
BatchGetCached(c, ids, t) ==
    [id \in {i \in ids : CacheValue(c, buildCacheKey(i), t).data.tag = "entity"}
        |-> CacheValue(c, buildCacheKey(id), t).data.e]

\* The first loop: the ids whose key holds an item that is neither the marker
\* nor a *T, on which the type assertion panics.
BatchGetPanics(c, ids, t) ==
    {i \in ids : CacheValue(c, buildCacheKey(i), t).data.tag = "list"}

\* Mutant: an id whose key holds the NotFound marker is looked up again.
BatchGetUncached_NotFoundToo(c, ids, t) ==
    {i \in ids : CacheValue(c, buildCacheKey(i), t).data \in {NoItem.data, NotFound}}

\* The first loop: the ids whose key holds no item.
BatchGetUncached(c, ids, t) ==
    {i \in ids : CacheValue(c, buildCacheKey(i), t) = NoItem}

\* The second loop adds every entity the store returned under
\* buildCacheKeyFromEntity; the store returns them in no stated order, so the
\* item left under that key is any one of them.
BatchGetCache(c, entities, conf, t) ==
    IF entities = {} THEN {c}
    ELSE {CacheAdd(c, buildCacheKeyFromEntity(e), conf.Expiration, Ptr(e), t) :
             e \in entities}

BatchGet(ids) ==
    LET result == BatchGetCached(cache, ids, now)
        uncachedIDs == BatchGetUncached(cache, ids, now)
    IN  /\ IF BatchGetPanics(cache, ids, now) # {}
           THEN /\ cache' = cache
                /\ last' = Call("BatchGet", 0, NilEntity, ids, <<>>, Panic, <<>>)
           ELSE IF uncachedIDs # {}
           THEN \E res \in dbFindIn(db, uncachedIDs) :
                IF res.err # Nil
                THEN /\ cache' = cache
                     /\ last' = Call("BatchGet", 0, NilEntity, ids, <<>>, res.err,
                                     <<QFindIn(uncachedIDs)>>)
                ELSE /\ cache' \in BatchGetCache(cache, res.es, config, now)
                     /\ last' = Call("BatchGet", 0, NilEntity, ids, result, Nil,
                                     <<QFindIn(uncachedIDs)>>)
           ELSE /\ cache' = cache
                /\ last' = Call("BatchGet", 0, NilEntity, ids, result, Nil, <<>>)
        /\ UNCHANGED <<db, now, config, other, inflight>>

\* --------------------------------------------------------------------- time
Tick ==
    /\ now < MaxTime
    /\ now' = now + 1
    /\ UNCHANGED <<db, cache, config, last, other, inflight>>

\* ----------------------------------------------------------- specifications
Procs == {"p1", "p2"}           \* the concurrent callers

\* What a store call of a call in flight answered; "pending" before it.
NoRes == [err |-> "pending", e |-> NilEntity, es |-> {}]

\* A caller with no call in flight.
Idle ==
    [op |-> "none", id |-> 0, ent |-> NilEntity, i |-> 0, res |-> NoRes,
     behind |-> {}, late |-> FALSE]

NoCall ==
    [op |-> "none", id |-> 0, ent |-> NilEntity, ids |-> {}, ret |-> NilEntity,
     err |-> Nil, db |-> <<>>, at |-> 0, flip |-> FALSE]

\* NewGormCacheRepository[T, ID] for the ID type idType, over an empty table
\* and an empty cache table.
NewGormCacheRepository(idType) ==
    /\ db = [i \in IDs |-> NoRow]
    /\ cache = [k \in Keys |-> NoItem]
    /\ now = 0
    /\ config \in [Expiration : {0, TTL}, UseNotFoundCache : BOOLEAN, ID : {idType}]
    /\ last = NoCall
    /\ other = [k \in Keys |-> NoItem]
    /\ inflight = [p \in Procs |-> Idle]

Init == NewGormCacheRepository("uint")

Next ==
    \/ \E id \in IDs : GetByID(id)
    \/ GetAll
    \/ \E e \in Entities : Save(e)
    \/ \E id \in IDs : Delete(id)
    \/ \E id \in IDs : ClearCache(id)
    \/ ClearAllCache
    \/ \E ids \in SUBSET IDs : BatchGet(ids)

\* Calls one after the other, within a time in which no item expires.
Spec == Init /\ [][Next]_vars

InitTTL == Init /\ config.Expiration = TTL

\* The calls with one id.
NextOne ==
    \/ \E id \in TTLIDs : GetByID(id)
    \/ GetAll
    \/ \E e \in {Entity(i, v) : i \in TTLIDs, v \in Vals} : Save(e)
    \/ \E id \in TTLIDs : Delete(id)
    \/ \E id \in TTLIDs : ClearCache(id)
    \/ ClearAllCache
    \/ \E ids \in SUBSET TTLIDs : BatchGet(ids)

NextTTL == Tick \/ NextOne

\* The same calls with time passing between them, under a positive Expiration.
SpecTTL == InitTTL /\ [][NextTTL]_vars

\* A repository configured with another TableName works on the table
\* cache2go.Cache gives for that name: it adds items to it and flushes it.
OtherRepository ==
    /\ \/ \E k \in {buildCacheKey(i) : i \in TTLIDs} \cup {AllKey} :
            other' = CacheAdd(other, k, config.Expiration, NotFound, now)
       \/ other' = CacheFlush(other)
    /\ UNCHANGED <<db, cache, now, config, last, inflight>>

NextNS == NextOne \/ OtherRepository

\* Two repositories with different TableNames over one store.
SpecNS == Init /\ [][NextNS]_vars

InitString == NewGormCacheRepository("string")

\* The calls a caller makes with the string ids "u1" and "all".
NextString ==
    \/ \E id \in {1, 3} : GetByID(id)
    \/ GetAll
    \/ \E v \in Vals : Save(Entity(1, v))
    \/ \E id \in {1, 3} : Delete(id)
    \/ \E id \in {1, 3} : ClearCache(id)
    \/ ClearAllCache
    \/ \E ids \in SUBSET {1, 3} : BatchGet(ids)

\* The repository with ID = string.
SpecString == InitString /\ [][NextString]_vars

\* ---------------------------------------------------------- concurrent calls
\* Callers on several threads: a call is the sequence of its store calls and
\* cache-table calls, each of them atomic, and the calls of different callers
\* interleave between them.  inflight[p].i counts the calls p's call has made.
\* behind and late are history: the writers whose store write came after p's
\* scan, and whether one of them has evicted "all" since.
Running(p, op, i) == inflight[p].op = op /\ inflight[p].i = i

Return(p) == [inflight EXCEPT ![p] = Idle]

\* The store accepted a write of q: the scans in flight are behind it.
Overtake(fl, q) ==
    [p \in Procs |->
        IF p # q /\ fl[p].op = "GetAll" /\ fl[p].i = 2 /\ fl[p].res.err = Nil
        THEN [fl[p] EXCEPT !.behind = @ \cup {q}]
        ELSE fl[p]]

\* q evicted "all": the scans that are behind q's write are late.
Evicted(fl, q) ==
    [p \in Procs |->
        IF q \in fl[p].behind THEN [fl[p] EXCEPT !.late = TRUE] ELSE fl[p]]

\* GetByID: r.cacheTable.Value(cacheKey); a hit returns.
GetByIDValue(p, id) ==
    LET cacheKey == buildCacheKey(id)
        cachedData == CacheValue(cache, cacheKey, now)
    IN  /\ inflight[p] = Idle
        /\ IF cachedData # NoItem
           THEN /\ cache' = GetByIDHit(cache, cacheKey, cachedData, config, now)
                /\ inflight' = inflight
           ELSE /\ cache' = cache
                /\ inflight' = [inflight EXCEPT ![p] =
                                   [Idle EXCEPT !.op = "GetByID", !.id = id, !.i = 1]]
        /\ UNCHANGED <<db, now, config, last, other>>

\* GetByID: r.db.Where(...).First(entity)
GetByIDFirst(p) ==
    /\ Running(p, "GetByID", 1)
    /\ \E res \in dbFirst(db, inflight[p].id) :
          inflight' = [inflight EXCEPT ![p].i = 2,
                                       ![p].res = [NoRes EXCEPT !.err = res.err,
                                                                !.e = res.e]]
    /\ UNCHANGED <<db, cache, now, config, last, other>>

\* GetByID: the Add of the entity or of the marker, and the return.
GetByIDAdd(p) ==
    /\ Running(p, "GetByID", 2)
    /\ cache' = GetByIDStore(cache, buildCacheKey(inflight[p].id), inflight[p].res,
                             config, now)
    /\ inflight' = Return(p)
    /\ UNCHANGED <<db, now, config, last, other>>

\* GetAll: r.cacheTable.Value("all"); a hit returns.
GetAllValue(p) ==
    /\ inflight[p] = Idle
    /\ inflight' = IF CacheValue(cache, AllKey, now) # NoItem THEN inflight
                   ELSE [inflight EXCEPT ![p] = [Idle EXCEPT !.op = "GetAll", !.i = 1]]
    /\ UNCHANGED <<db, cache, now, config, last, other>>

\* GetAll: r.db.Find(&entities)
GetAllFind(p) ==
    /\ Running(p, "GetAll", 1)
    /\ \E res \in dbFind(db) :
          inflight' = [inflight EXCEPT ![p].i = 2,
                                       ![p].res = [NoRes EXCEPT !.err = res.err,
                                                                !.es = res.es]]
    /\ UNCHANGED <<db, cache, now, config, last, other>>

\* GetAll: the Add of the scan under "all", and the return.
GetAllAdd(p) ==
    /\ Running(p, "GetAll", 2)
    /\ cache' = IF inflight[p].res.err # Nil THEN cache
                ELSE CacheAdd(cache, AllKey, config.Expiration,
                              List(inflight[p].res.es), now)
    /\ inflight' = Return(p)
    /\ UNCHANGED <<db, now, config, last, other>>

\* Mutant: the cache is updated first, the store is written afterwards.
SaveStore_CacheFirst(p, entity) ==
    /\ inflight[p] = Idle
    /\ cache' = SaveCache(cache, entity, config, now)
    /\ inflight' = [inflight EXCEPT ![p] =
                       [Idle EXCEPT !.op = "Save", !.id = entity.id, !.ent = entity,
                                    !.i = 1]]
    /\ UNCHANGED <<db, now, config, last, other>>

\* Save: r.db.Save(entity); an error returns.
SaveStore(p, entity) ==
    /\ inflight[p] = Idle
    /\ \E res \in dbSave(db, entity) :
          /\ db' = res.d
          /\ inflight' =
                IF res.err # Nil THEN inflight
                ELSE Overtake([inflight EXCEPT ![p] =
                                  [Idle EXCEPT !.op = "Save", !.id = entity.id,
                                               !.ent = entity, !.i = 1,
                                               !.res = [NoRes EXCEPT !.err = Nil]]], p)
    /\ UNCHANGED <<cache, now, config, last, other>>

\* Save: r.cacheTable.Add(cacheKey, r.config.Expiration, entity)
SaveAdd(p) ==
    /\ Running(p, "Save", 1)
    /\ cache' = CacheAdd(cache, buildCacheKeyFromEntity(inflight[p].ent),
                         config.Expiration, Ptr(inflight[p].ent), now)
    /\ inflight' = [inflight EXCEPT ![p].i = 2]
    /\ UNCHANGED <<db, now, config, last, other>>

\* Save: r.cacheTable.Delete("all"), and the return.
SaveDeleteAll(p) ==
    /\ Running(p, "Save", 2)
    /\ cache' = CacheDelete(cache, AllKey)
    /\ inflight' = Evicted(Return(p), p)
    /\ UNCHANGED <<db, now, config, last, other>>

\* Delete: r.db.Where(...).Delete(new(T)); an error returns.
DeleteStore(p, id) ==
    /\ inflight[p] = Idle
    /\ \E res \in dbDelete(db, id) :
          /\ db' = res.d
          /\ inflight' =
                IF res.err # Nil THEN inflight
                ELSE Overtake([inflight EXCEPT ![p] =
                                  [Idle EXCEPT !.op = "Delete", !.id = id, !.i = 1,
                                               !.res = [NoRes EXCEPT !.err = Nil]]], p)
    /\ UNCHANGED <<cache, now, config, last, other>>

\* Delete: r.cacheTable.Delete(cacheKey)
DeleteKey(p) ==
    /\ Running(p, "Delete", 1)
    /\ cache' = CacheDelete(cache, buildCacheKey(inflight[p].id))
    /\ inflight' = [inflight EXCEPT ![p].i = 2]
    /\ UNCHANGED <<db, now, config, last, other>>

\* Delete: r.cacheTable.Delete("all"), and the return.
DeleteAll(p) ==
    /\ Running(p, "Delete", 2)
    /\ cache' = CacheDelete(cache, AllKey)
    /\ inflight' = Evicted(Return(p), p)
    /\ UNCHANGED <<db, now, config, last, other>>

\* The calls of caller p on the entity with id 1.
GetByIDOf(p) ==
    (\E id \in TTLIDs : GetByIDValue(p, id)) \/ GetByIDFirst(p) \/ GetByIDAdd(p)

GetAllOf(p) == GetAllValue(p) \/ GetAllFind(p) \/ GetAllAdd(p)

SaveOf(p) ==
    \/ \E e \in {Entity(i, v) : i \in TTLIDs, v \in Vals} : SaveStore(p, e)
    \/ SaveAdd(p)
    \/ SaveDeleteAll(p)

DeleteOf(p) ==
    (\E id \in TTLIDs : DeleteStore(p, id)) \/ DeleteKey(p) \/ DeleteAll(p)

NextConcurrent == \E p \in Procs : GetByIDOf(p) \/ GetAllOf(p) \/ SaveOf(p) \/ DeleteOf(p)

\* Concurrent callers of one repository, within a time in which no item
\* expires.
SpecConcurrent == Init /\ [][NextConcurrent]_vars

\* The store call or cache call that a call in flight of p makes next.
Continue(p) ==
    \/ GetByIDFirst(p) \/ GetByIDAdd(p)
    \/ SaveAdd(p) \/ SaveDeleteAll(p)
    \/ DeleteKey(p) \/ DeleteAll(p)

NextRace == Tick \/ \E p \in Procs : GetByIDOf(p) \/ SaveOf(p) \/ DeleteOf(p)

\* Concurrent GetByID, Save and Delete of one id while time passes: the clock
\* goes on, and every call that was made runs to its return.
SpecRace ==
    Init /\ [][NextRace]_vars /\ WF_vars(Tick) /\ \A p \in Procs : WF_vars(Continue(p))

\* ------------------------------------------------------------------- claims
\* The step is a call of op (every call flips last.flip; Tick does not).
Called(op) == last'.flip # last.flip /\ last'.op = op

\* What is cached, and live, under the key of id.
Cached(c, id, t) == CacheValue(c, buildCacheKey(id), t).data

\* C1: a GetByID(id) that follows a successful Save(e) with id(e) = id returns
\* e as saved (unless the store call it may make fails), whatever was cached
\* under the key of id before the Save.
C1_GetByIDAfterSaveReturnsSaved ==
    [][(/\ last.op = "Save" /\ last.err = Nil
        /\ Called("GetByID") /\ last'.id = last.ent.id
        /\ last'.err # StoreError)
       => (last'.err = Nil /\ last'.ret = last.ent)]_vars

\* C2: after a successful Save(e) the cache holds e under the key of e's own
\* id, and a GetByID of that id issued next returns e without a store query.
C2_SaveCachesUnderOwnKey ==
    /\ [](last.op = "Save" /\ last.err = Nil
            => Cached(cache, last.ent.id, now) = Ptr(last.ent))
    /\ [][(/\ last.op = "Save" /\ last.err = Nil
           /\ Called("GetByID") /\ last'.id = last.ent.id)
          => (last'.err = Nil /\ last'.ret = last.ent /\ last'.db = <<>>)]_vars

\* C3: a BatchGet(ids) that succeeds returns a mapping whose keys are exactly
\* the requested ids that are resolvable (cached as an entity, or without a
\* cache item and in the store), each mapped to its entity, and it issues one
\* batched store query for exactly the ids that had no cache item.
C3_BatchGetResolvesFromCacheAndStore ==
    [][(Called("BatchGet") /\ last'.err = Nil)
       => LET ids == last'.ids
              present == {i \in ids : Cached(cache, i, now).tag = "entity"}
              uncached == {i \in ids : Cached(cache, i, now) = NoItem.data}
              stored == {i \in uncached : db[i] # NoRow}
          IN  /\ DOMAIN last'.ret = present \cup stored
              /\ \A i \in present : last'.ret[i] = Cached(cache, i, now).e
              /\ \A i \in stored : last'.ret[i] = Entity(i, db[i])
              /\ uncached # {} => last'.db = <<QFindIn(uncached)>>]_vars

\* C4: from a cache without an item under the key of id, GetByID(id) queries
\* the store; when the store has id it returns the store's entity and leaves
\* it under the key of id, and when the store has no such entity it fails with
\* the not-found error (a store error apart).
C4_ReadThrough ==
    [][(Called("GetByID") /\ Cached(cache, last'.id, now) = NoItem.data)
       => LET id == last'.id
          IN  /\ last'.db = <<QFirst(id)>>
              /\ last'.err # StoreError =>
                   IF db[id] # NoRow
                   THEN /\ last'.err = Nil
                        /\ last'.ret = Entity(id, db[id])
                        /\ Cached(cache', id, now') = Ptr(Entity(id, db[id]))
                   ELSE /\ last'.err = ErrRecordNotFound
                        /\ last'.ret = NilEntity]_vars

\* A GetByID that missed, got the entity from the store and left it cached.
C4_Witness ==
    /\ last.op = "GetByID" /\ last.err = Nil
    /\ last.db = <<QFirst(last.id)>>
    /\ db[last.id] # NoRow
    /\ Cached(cache, last.id, now) = Ptr(last.ret)

\* C5: a GetByID(id) that follows a successful GetByID(id) returns the same
\* entity and makes no store query.
C5_SecondGetByIDIsAHit ==
    [][(/\ last.op = "GetByID" /\ last.err = Nil
        /\ Called("GetByID") /\ last'.id = last.id)
       => (last'.err = Nil /\ last'.ret = last.ret /\ last'.db = <<>>)]_vars

\* A GetByID served from the cache: only an earlier GetByID of that id puts an
\* entity under its key.
C5_Witness ==
    /\ last.op = "GetByID" /\ last.err = Nil /\ last.db = <<>>
    /\ last.ret = Entity(last.id, db[last.id])

\* C6: with UseNotFoundCache, a GetByID(id) that follows a GetByID(id) which
\* failed with the not-found error fails with the same error and makes no
\* store query; without it, no NotFound marker is ever in the cache and every
\* GetByID of an id the store does not have queries the store.
C6_NegativeCaching ==
    /\ [][(/\ config.UseNotFoundCache
           /\ last.op = "GetByID" /\ last.err = ErrRecordNotFound
           /\ Called("GetByID") /\ last'.id = last.id)
          => (last'.err = ErrRecordNotFound /\ last'.db = <<>>)]_vars
    /\ [](~config.UseNotFoundCache => \A k \in DOMAIN cache : cache[k].data # NotFound)
    /\ [][(~config.UseNotFoundCache /\ Called("GetByID") /\ db[last'.id] = NoRow)
          => (/\ last'.db = <<QFirst(last'.id)>>
              /\ last'.err \in {ErrRecordNotFound, StoreError})]_vars

\* A GetByID answered by the NotFound marker an earlier GetByID left.
C6_Witness ==
    /\ config.UseNotFoundCache
    /\ last.op = "GetByID" /\ last.err = ErrRecordNotFound /\ last.db = <<>>
    /\ db[last.id] = NoRow

\* C7: after a successful Save the "all" key holds no item, and a GetAll that
\* follows it queries the store and returns the store's current collection.
C7_SaveEvictsAll ==
    /\ [](last.op = "Save" /\ last.err = Nil => CacheValue(cache, AllKey, now) = NoItem)
    /\ [][(last.op = "Save" /\ last.err = Nil /\ Called("GetAll"))
          => (/\ last'.db = <<QFind>>
              /\ last'.err = Nil => last'.ret = Rows(db))]_vars

\* A GetAll that went to the store and returned the entity a Save wrote.
C7_Witness ==
    /\ last.op = "GetAll" /\ last.err = Nil /\ last.db = <<QFind>>
    /\ cache[""].data.tag = "entity"
    /\ cache[""].data.e \in last.ret
    /\ cache[AllKey].data = List(last.ret)

\* C8: after a successful Delete(id) neither the key of id nor the "all" key
\* holds an item; a GetByID(id) that follows queries the store and fails, and
\* a GetAll that follows queries the store and returns no entity with that id.
C8_DeleteEvicts ==
    /\ [](last.op = "Delete" /\ last.err = Nil
            => /\ CacheValue(cache, buildCacheKey(last.id), now) = NoItem
               /\ CacheValue(cache, AllKey, now) = NoItem)
    /\ [][(last.op = "Delete" /\ last.err = Nil
           /\ Called("GetByID") /\ last'.id = last.id)
          => (/\ last'.db = <<QFirst(last.id)>>
              /\ last'.err \in {ErrRecordNotFound, StoreError})]_vars
    /\ [][(last.op = "Delete" /\ last.err = Nil /\ Called("GetAll"))
          => (/\ last'.db = <<QFind>>
              /\ \A e \in last'.ret : e.id # last.id)]_vars

\* A GetByID that asked the store for an entity that was saved and then
\* deleted, and did not find it.
C8_Witness ==
    /\ last.op = "GetByID" /\ last.err = ErrRecordNotFound
    /\ last.db = <<QFirst(last.id)>>
    /\ cache[""].data.tag = "entity"
    /\ cache[""].data.e.id = last.id

C10_FailedWriteLeavesCache ==
    [][((Called("Save") \/ Called("Delete")) /\ last'.err # Nil)
       => (last'.err = StoreError /\ cache' = cache)]_vars

\* A failed Save over a cache that holds the collection and the entity.
C10_Witness ==
    /\ last.op = "Save" /\ last.err = StoreError
    /\ cache[AllKey] # NoItem
    /\ cache[buildCacheKey(last.id)].data.tag = "entity"

\* The step is one of caller p's call.
Stepped(p) == inflight'[p].i # inflight[p].i \/ inflight'[p].op # inflight[p].op

\* C11: a scan under "all" is no older than the last eviction of "all": no
\* GetAll adds its scan after a writer, whose store write came after the scan,
\* has evicted "all".
C11_ScanNotCachedAfterLaterEviction ==
    [][\A p \in Procs :
          (Running(p, "GetAll", 2) /\ Stepped(p) /\ cache'[AllKey] # NoItem
             /\ inflight[p].res.err = Nil)
          => ~inflight[p].late]_vars

\* C17: the first step of a Save or a Delete is its store write and leaves the
\* cache as it is, and every later step of the call, which are its cache
\* calls, is made by a call whose store write was applied.
C17_StoreWriteBeforeCache ==
    [][\A p \in Procs :
          (Stepped(p) /\ {inflight[p].op, inflight'[p].op} \cap {"Save", "Delete"} # {})
          => IF inflight[p] = Idle
             THEN /\ cache' = cache
                  /\ inflight'[p].res.err = Nil
                  /\ db'[inflight'[p].id] =
                        IF inflight'[p].op = "Save" THEN inflight'[p].ent.v ELSE NoRow
             ELSE inflight[p].res.err = Nil]_vars

\* A Save that has added its entity while a Delete of the same id, whose store
\* write came first, has not yet cleared the cache.
C17_Witness ==
    \E p, q \in Procs :
        /\ Running(p, "Save", 2) /\ Running(q, "Delete", 1)
        /\ db[inflight[p].id] = inflight[p].ent.v
        /\ inflight[q].id = inflight[p].id
        /\ cache[buildCacheKeyFromEntity(inflight[p].ent)].data = Ptr(inflight[p].ent)

\* C12: ClearCache(id) succeeds and removes the item under the key of id and
\* nothing else: the store, the "all" item and the items of the other ids are
\* as before; on a cache without an item for id nothing changes, and a second
\* ClearCache(id) changes nothing.
C12_ClearCacheRemovesOnlyItsKey ==
    /\ [][Called("ClearCache")
          => LET key == buildCacheKey(last'.id)
             IN  /\ last'.err = Nil
                 /\ db' = db
                 /\ cache'[key] = NoItem
                 /\ \A k \in DOMAIN cache \ {key} : cache'[k] = cache[k]
                 /\ cache[key] = NoItem => cache' = cache]_vars
    /\ [][(last.op = "ClearCache" /\ Called("ClearCache") /\ last'.id = last.id)
          => cache' = cache]_vars

\* A ClearCache(id) over a cache that holds the collection and another id's
\* entity, in a store that has id.
C12_Witness ==
    /\ last.op = "ClearCache" /\ last.err = Nil
    /\ db[last.id] # NoRow
    /\ cache[buildCacheKey(last.id)] = NoItem
    /\ cache[AllKey] # NoItem
    /\ \E i \in IDs \ {last.id} : cache[buildCacheKey(i)].data.tag = "entity"

\* C13: ClearAllCache succeeds and leaves no item in the repository's table,
\* so that the next GetByID and the next GetAll query the store; it changes
\* neither the store nor the table of another TableName.
C13_ClearAllCacheFlushesOwnTable ==
    /\ [][Called("ClearAllCache")
          => (/\ last'.err = Nil
              /\ \A k \in DOMAIN cache : cache'[k] = NoItem
              /\ db' = db
              /\ other' = other)]_vars
    /\ [][(last.op = "ClearAllCache" /\ Called("GetByID"))
          => last'.db = <<QFirst(last'.id)>>]_vars
    /\ [][(last.op = "ClearAllCache" /\ Called("GetAll"))
          => last'.db = <<QFind>>]_vars

\* A ClearAllCache while the store has a row and the other table an item.
C13_Witness ==
    /\ last.op = "ClearAllCache" /\ last.err = Nil
    /\ \E i \in IDs : db[i] # NoRow
    /\ other[AllKey] # NoItem
    /\ \A k \in DOMAIN cache : cache[k] = NoItem

\* No call is in flight.
Quiet == \A p \in Procs : inflight[p] = Idle

\* The live item under the key of id disagrees with the store: an entity the
\* store does not have or has in another version, or the marker for an id
\* the store has.
Stale(id) ==
    LET d == Cached(cache, id, now)
    IN  \/ d.tag = "entity" /\ db[id] # d.e.v
        \/ d = NotFound /\ db[id] # NoRow

C15_BatchGetCachesUnderOwnKey ==
    [][(Called("BatchGet") /\ last'.err = Nil)
       => /\ \A e \in {r \in Rows(db) :
                         r.id \in {i \in last'.ids : Cached(cache, i, now) = NoItem.data}} :
                Cached(cache', e.id, now') = Ptr(e)
          /\ \A k \in DOMAIN cache :
                (cache'[k] # cache[k] /\ cache'[k].data.tag = "entity")
                => k = buildCacheKey(cache'[k].data.e.id)]_vars

\* C16: a GetByID whose store query fails with an error other than not-found,
\* and a GetAll whose store query fails, return that error and leave the cache
\* as it was; the same call made next queries the store again.
C16_ReadErrorsAreNotCached ==
    /\ [][(Called("GetByID") /\ last'.err \notin {Nil, ErrRecordNotFound})
          => (last'.err = StoreError /\ cache' = cache)]_vars
    /\ [][(Called("GetAll") /\ last'.err # Nil)
          => (last'.err = StoreError /\ cache' = cache)]_vars
    /\ [][(/\ last.op = "GetByID" /\ last.err = StoreError
           /\ Called("GetByID") /\ last'.id = last.id)
          => last'.db = <<QFirst(last.id)>>]_vars
    /\ [][(last.op = "GetAll" /\ last.err = StoreError /\ Called("GetAll"))
          => last'.db = <<QFind>>]_vars

\* A GetByID that failed with the store's error, with negative caching on.
C16_Witness ==
    /\ last.op = "GetByID" /\ last.err = StoreError
    /\ config.UseNotFoundCache
    /\ cache[buildCacheKey(last.id)] = NoItem

\* C18: in BatchGet an id whose key holds the NotFound marker is neither in
\* the result nor in the store query, an id whose key holds an entity is in
\* the result with that entity and not in the store query, the store query is
\* for exactly the ids without an item, and there is none when no id is left.
C18_BatchGetPartition ==
    [][Called("BatchGet")
       => LET ids == last'.ids
              absent == {i \in ids : Cached(cache, i, now) = NotFound}
              present == {i \in ids : Cached(cache, i, now).tag = "entity"}
              uncached == ids \ (absent \cup present)
          IN  /\ last'.db = IF uncached = {} THEN <<>> ELSE <<QFindIn(uncached)>>
              /\ last'.err = Nil =>
                   /\ absent \cap DOMAIN last'.ret = {}
                   /\ present \subseteq DOMAIN last'.ret
                   /\ \A i \in present : last'.ret[i] = Cached(cache, i, now).e]_vars

\* A BatchGet of an id with the marker and an id with an entity, and no id
\* left for the store.
C18_Witness ==
    /\ last.op = "BatchGet" /\ last.err = Nil /\ last.db = <<>>
    /\ \E i \in last.ids : cache[buildCacheKey(i)].data = NotFound
    /\ \E i \in last.ids : i \in DOMAIN last.ret

\* C19: no per-id call touches the collection and no call reads an item of
\* the wrong kind: GetByID, BatchGet and ClearCache leave the item under "all"
\* as it was, a Delete of an id changes it only if the store accepted the
\* delete, and no call panics on the type of the item it read.
C19_NoKeyCollision ==
    /\ [][(Called("ClearCache") \/ Called("GetByID") \/ Called("BatchGet"))
          => cache'[AllKey] = cache[AllKey]]_vars
    /\ [][(Called("Delete") /\ last'.err # Nil)
          => cache'[AllKey] = cache[AllKey]]_vars
    /\ [](last.err # Panic)

\* C20: no repository computes an empty cache key for an entity: no entity is
\* ever cached under the empty key.
C20_NoEmptyEntityKey ==
    cache[""].data.tag # "entity"
====
